---- MODULE Spec2Model ----
(***************************************************************************)
(* paramsmap: hidden HTTP parameter discovery.                             *)
(*                                                                         *)
(* The model follows src/utils.go (the current variant, lines 222-628):    *)
(* DiscoverParams takes numBaselines parameter-less probes, aborts when    *)
(* they are not pairwise similar, otherwise chunks the vocabulary, probes  *)
(* every chunk in its own goroutine (filterParts), and bisects every       *)
(* surviving chunk in its own goroutine (discoverValidParams /             *)
(* recursiveFilter), merging the isolated names under a mutex.             *)
(*                                                                         *)
(* Bodies are sequences of symbols.  The symbol "f" stands for the element *)
(* <input name="test"/>, "n" for ordinary text, "t" for time-dependent     *)
(* text, "s" for the text shown when a hidden parameter is detected.       *)
(***************************************************************************)
EXTENDS Integers, Sequences, FiniteSets, TLC

\* ---------------------------------------------------------------- bounds
MaxWords == 2
MaxFailures == 1
MaxChunk == 5

\* ------------------------------------------------------ program constants
numBaselines == 3
ThresholdNum == 9
ThresholdDen == 10
StatusOK == 200

\* ------------------------------------------------------------ vocabulary
Names == {"page", "mode", "test"}
\* hiddenParams of the mock server (two of the six names are kept)
hiddenParams == {"page", "mode"}

Range(s) == {s[i] : i \in 1..Len(s)}

RECURSIVE SeqsUpTo(_)
SeqsUpTo(n) ==
  IF n = 0 THEN {<<>>}
  ELSE LET shorter == SeqsUpTo(n - 1)
       IN  shorter \cup {Append(s, x) : s \in {q \in shorter : Len(q) = n - 1}, x \in Names}

\* ---------------------------------------------------------------- bodies
RECURSIVE Rep(_, _)
Rep(c, n) == IF n = 0 THEN <<>> ELSE <<c>> \o Rep(c, n - 1)

NormalBody == Rep("n", 9) \o <<"f">>
SecretBody == Rep("s", 3)
DynBody10  == Rep("n", 10)
DynBody11  == Rep("n", 10) \o <<"t">>
DynBody12  == Rep("n", 10) \o <<"t", "t">>

\* ResponseData (src/utils.go:305-309)
ResponseData(body, status, reflections) ==
  [Body |-> body, StatusCode |-> status, Reflections |-> reflections]

\* ResponseData{}: what makeRequest returns when the probe fails
ZeroResponse == ResponseData(<<>>, 0, 0)

\* ------------------------------------------------------------ comparator
Min2(a, b) == IF a <= b THEN a ELSE b

\* One row of the edit-distance table; rows are sequences indexed 1..Len(b)+1
RECURSIVE RowFill(_, _, _, _)
RowFill(prev, ai, b, acc) ==
  IF Len(acc) = Len(b) + 1 THEN acc
  ELSE LET j   == Len(acc)
           sub == prev[j] + (IF ai = b[j] THEN 0 ELSE 1)
           del == prev[j + 1] + 1
           ins == acc[j] + 1
       IN  RowFill(prev, ai, b, Append(acc, Min2(sub, Min2(del, ins))))

RECURSIVE LevRows(_, _, _, _)
LevRows(a, b, i, prev) ==
  IF i > Len(a) THEN prev[Len(b) + 1]
  ELSE LevRows(a, b, i + 1, RowFill(prev, a[i], b, <<i>>))

\* length of the common prefix of two texts
RECURSIVE CommonPrefix(_, _, _)
CommonPrefix(a, b, n) ==
  IF n < Len(a) /\ n < Len(b) /\ a[n + 1] = b[n + 1] THEN CommonPrefix(a, b, n + 1) ELSE n

\* length of the common suffix of two texts
RECURSIVE CommonSuffix(_, _, _)
CommonSuffix(a, b, n) ==
  IF n < Len(a) /\ n < Len(b) /\ a[Len(a) - n] = b[Len(b) - n]
  THEN CommonSuffix(a, b, n + 1) ELSE n

\* dmp.DiffLevenshtein(dmp.DiffMain(a, b, false)): DiffMain sets the common
\* prefix and suffix aside as equalities and diffs what is between them;
\* DiffLevenshtein is the character-level edit distance of that diff
DiffLevenshtein(a, b) ==
  LET p  == CommonPrefix(a, b, 0)
      a1 == SubSeq(a, p + 1, Len(a))
      b1 == SubSeq(b, p + 1, Len(b))
      q  == CommonSuffix(a1, b1, 0)
      a2 == SubSeq(a1, 1, Len(a1) - q)
      b2 == SubSeq(b1, 1, Len(b1) - q)
  IN  LevRows(a2, b2, 1, [j \in 1..(Len(b2) + 1) |-> j - 1])

\* computeSimilarity returns 1 - distance/maxLen, kept as the exact fraction
\* (maxLen - distance) / maxLen; 1.0 is 1/1.
computeSimilarity(aBody, bBody) ==
  LET maxLen == IF Len(bBody) > Len(aBody) THEN Len(bBody) ELSE Len(aBody)
  IN  IF maxLen = 0 THEN [num |-> 1, den |-> 1]
      ELSE [num |-> maxLen - DiffLevenshtein(aBody, bBody), den |-> maxLen]

\* fault: the similarity is computed whatever the lengths are
responsesAreSimilar_AlwaysScore(a, b) ==
  LET similarity == computeSimilarity(a.Body, b.Body)
  IN  /\ a.StatusCode = b.StatusCode
      /\ a.Reflections = b.Reflections
      /\ similarity.num * ThresholdDen >= ThresholdNum * similarity.den

responsesAreSimilar(a, b) ==
  LET similarity == IF Len(a.Body) # Len(b.Body)
                    THEN computeSimilarity(a.Body, b.Body)
                    ELSE [num |-> 1, den |-> 1]
  IN  /\ a.StatusCode = b.StatusCode
      /\ a.Reflections = b.Reflections
      /\ similarity.num * ThresholdDen >= ThresholdNum * similarity.den

\* fault: the bodies themselves are compared, not their lengths
responsesAreEqual_SameBytes(a, b) ==
  /\ a.StatusCode = b.StatusCode
  /\ a.Reflections = b.Reflections
  /\ a.Body = b.Body

responsesAreEqual(a, b) ==
  /\ a.StatusCode = b.StatusCode
  /\ a.Reflections = b.Reflections
  /\ Len(a.Body) = Len(b.Body)

\* a func(ResponseData, ResponseData) bool value, called by its name
Compare(compareFunc, a, b) ==
  IF compareFunc = "responsesAreEqual" THEN responsesAreEqual(a, b)
  ELSE responsesAreSimilar(a, b)

\* fault: the inner loop stops one short (j < len-1), so no pair with the
\* last baseline is compared
baselineResponsesAreConsistent_SkipLast(baselineResponses, compareFunc) ==
  \A i \in 1..Len(baselineResponses) :
    \A j \in (i + 1)..(Len(baselineResponses) - 1) :
      Compare(compareFunc, baselineResponses[i], baselineResponses[j])

\* for i, for j > i: if !compareFunc(r[i], r[j]) return false
baselineResponsesAreConsistent(baselineResponses, compareFunc) ==
  \A i \in 1..Len(baselineResponses) :
    \A j \in (i + 1)..Len(baselineResponses) :
      Compare(compareFunc, baselineResponses[i], baselineResponses[j])

\* the loop of responseChanged from baseline k on: false at the first
\* baseline the new response matches, true when the loop runs out
RECURSIVE responseChangedFrom(_, _, _, _)
responseChangedFrom(baselineResponses, new, equalCheck, k) ==
  IF k > Len(baselineResponses) THEN TRUE
  ELSE IF equalCheck /\ responsesAreEqual(baselineResponses[k], new) THEN FALSE
  ELSE IF ~equalCheck /\ responsesAreSimilar(baselineResponses[k], new) THEN FALSE
  ELSE responseChangedFrom(baselineResponses, new, equalCheck, k + 1)

\* fault: "return true" sits inside the loop, so one baseline that the new
\* response does not match is enough for "changed"
responseChanged_AnyMismatch(baselineResponses, new, equalCheck) ==
  \E k \in 1..Len(baselineResponses) :
    IF equalCheck THEN ~responsesAreEqual(baselineResponses[k], new)
    ELSE ~responsesAreSimilar(baselineResponses[k], new)

responseChanged(baselineResponses, new, equalCheck) ==
  responseChangedFrom(baselineResponses, new, equalCheck, 1)

\* --------------------------------------------------------------- helpers
\* url.Values built with Set: one entry per distinct name
generateParams(params) == Range(params)

\* every input/select/textarea element with a name attribute, in order
RECURSIVE extractFormParams(_)
extractFormParams(body) ==
  IF body = <<>> THEN <<>>
  ELSE (IF body[1] = "f" THEN <<"test">> ELSE <<>>) \o extractFormParams(Tail(body))

RECURSIVE chunkFrom(_, _, _)
chunkFrom(params, chunkSize, i) ==
  IF i > Len(params) THEN <<>>
  ELSE LET end == Min2(i + chunkSize - 1, Len(params))
       IN  <<SubSeq(params, i, end)>> \o chunkFrom(params, chunkSize, i + chunkSize)

\* fault: the loop stops when a full chunk no longer fits
\* (i + chunkSize <= len), so a shorter last chunk is dropped
chunkParams_DropPartial(params, chunkSize) ==
  chunkFrom(SubSeq(params, 1, (Len(params) \div chunkSize) * chunkSize), chunkSize, 1)

\* fault: the chunk size is not used, every name is a chunk of its own
chunkParams_Singles(params, chunkSize) == chunkFrom(params, 1, 1)

chunkParams(params, chunkSize) == chunkFrom(params, chunkSize, 1)

\* ---------------------------------------------------------------- target
\* The endpoint under scan, as the mock servers of src/main_test.go:
\*   static    "/"          changes exactly when a hidden parameter is injected
\*   dynamic   "/dynamic"   as static, with a time-dependent body otherwise
\*   unstable  "/unstable"  body varies wildly, whatever is injected
\*   flaky     no hidden parameter; up to MaxFailures probes fail in transport
\*   down      unreachable: every probe fails
\*   joint     static, and changes only when both names of jointParams are
\*             in the request
Targets == {"static", "dynamic", "unstable", "flaky", "down", "joint"}

Hit(inj) == inj \cap hiddenParams # {}

jointParams == {"page", "mode"}

\* what the server answers to a request carrying the injection inj
Serve(tgt, inj) ==
  CASE tgt = "static" ->
         {ResponseData(IF Hit(inj) THEN SecretBody ELSE NormalBody, StatusOK, 0)}
    [] tgt = "flaky" -> {ResponseData(NormalBody, StatusOK, 0)}
    [] tgt = "dynamic" ->
         IF Hit(inj) THEN {ResponseData(SecretBody, StatusOK, 0)}
         ELSE {ResponseData(b, StatusOK, 0) : b \in {DynBody10, DynBody11}}
    [] tgt = "unstable" ->
         {ResponseData(b, StatusOK, 0) : b \in {DynBody10, DynBody12}}
    [] tgt = "down" -> {}
    [] tgt = "joint" ->
         {ResponseData(IF jointParams \subseteq inj THEN SecretBody ELSE NormalBody,
                       StatusOK, 0)}

\* makeRequest, lines 368-419: ResponseData{} when url.Parse or client.Do
\* fails, otherwise body, status code and reflection count of the answer
makeRequest(tgt, inj, failed) ==
  Serve(tgt, inj) \cup
  (IF tgt = "down" \/ (tgt = "flaky" /\ failed < MaxFailures) THEN {ZeroResponse} ELSE {})

\* number of failed probes so far, counted for the flaky target
CountFailure(tgt, failed, resp) ==
  IF tgt = "flaky" /\ resp = ZeroResponse THEN failed + 1 ELSE failed

\* ----------------------------------------------------------------- state
MaxForm == Len(extractFormParams(NormalBody))
Workers == 1..(MaxWords + MaxForm)
NoWorker == 0

NoInitialResponses == [Responses |-> <<>>, SameBody |-> FALSE, AreConsistent |-> FALSE]
NoCall == [fn |-> "none"]
NoReturn == [returned |-> FALSE]
\* Go slices: "var s []string" is nil and stays nil until the first append
\* gives it a backing array; []string{} is empty and not nil.  encoding/json
\* writes a nil slice as null and an empty one as [].
NilUnlessAppended(s) == Len(s) = 0

\* Results, with the nil-ness of its two slices; the zero value before
\* DiscoverParams returned
NoResults == [Params |-> <<>>, FormParams |-> <<>>, Aborted |-> FALSE, AbortReason |-> "",
              ParamsNil |-> TRUE, FormParamsNil |-> TRUE]

VARIABLES
  wordlist, chunkSize, target,       \* inputs of DiscoverParams and the endpoint
  pc,                                \* position of the goroutine running DiscoverParams
  baselineResponses,                 \* local of makeInitialRequests
  initialResponses,                  \* InitialResponses, once computed
  formsParams, params, parts,        \* locals of DiscoverParams / discoverValidParams
  totalRequests,                     \* the process-wide request counter
  fpc, freg, fmu, validParts,        \* filterParts: workers, loaded counter, mutex, result
  bpc, breg, stack, leftResponse,    \* discoverValidParams: workers and recursiveFilter frames
  found, idx, seen,                  \* names returned by recursiveFilter, loop position
  mu, paramSet, validParams,         \* aggregation mutex, set and list
  results,                           \* what DiscoverParams returned
  probes, isolated, chunkFailed,     \* history: probes issued, names that changed the
                                     \* response alone, chunks whose probe failed,
  failures,                          \* probes that failed
  run, firstParams,                  \* which scan of the process's caller this is, and
                                     \* the set of names the first scan returned
  call, ret,                         \* a helper function called on its own: its
                                     \* arguments and what it returned
  modesUsed,                         \* history: the equalCheck argument of every
                                     \* responseChanged call, with the calling function
  filterProbes, chunkUnchanged,      \* history: requests sent by filterParts for each
                                     \* part, parts whose response did not change
  sent, splits,                      \* history, for each bisection worker: the lists it
                                     \* sent a request for, and the recursiveFilter calls
                                     \* that made both their requests, with the outcome
  inFlight                           \* requests sent and not yet answered, for each
                                     \* worker of filterParts (f) and discoverValidParams (b)

inputVars  == <<wordlist, chunkSize, target>>
runVars    == <<run, firstParams>>
mainVars   == <<pc, baselineResponses, initialResponses, formsParams, params, parts, results>>
filterVars == <<fpc, freg, fmu, validParts>>
bisectVars == <<bpc, breg, stack, leftResponse, found, idx, seen, mu, paramSet, validParams>>
histVars   == <<probes, isolated, chunkFailed, failures>>
callVars   == <<call, ret>>
traceVars  == <<modesUsed, filterProbes, chunkUnchanged, sent, splits, inFlight>>
vars == <<inputVars, runVars, mainVars, filterVars, bisectVars, totalRequests, histVars,
          callVars, traceVars>>

\* the state of a process that has not started DiscoverParams yet
ScanStart ==
  /\ pc = "baseline"
  /\ baselineResponses = <<>>
  /\ initialResponses = NoInitialResponses
  /\ formsParams = <<>>
  /\ params = <<>>
  /\ parts = <<>>
  /\ totalRequests = 0
  /\ fpc = [i \in Workers |-> "idle"]
  /\ freg = [i \in Workers |-> 0]
  /\ fmu = NoWorker
  /\ validParts = <<>>
  /\ bpc = [k \in Workers |-> "idle"]
  /\ breg = [k \in Workers |-> 0]
  /\ stack = [k \in Workers |-> <<>>]
  /\ leftResponse = [k \in Workers |-> ZeroResponse]
  /\ found = [k \in Workers |-> <<>>]
  /\ idx = [k \in Workers |-> 1]
  /\ seen = [k \in Workers |-> FALSE]
  /\ mu = NoWorker
  /\ paramSet = {}
  /\ validParams = <<>>
  /\ results = NoResults
  /\ probes = 0
  /\ isolated = {}
  /\ chunkFailed = {}
  /\ failures = 0
  /\ modesUsed = {}
  /\ filterProbes = [i \in Workers |-> 0]
  /\ chunkUnchanged = {}
  /\ sent = [k \in Workers |-> <<>>]
  /\ splits = [k \in Workers |-> <<>>]
  /\ inFlight = [f |-> [i \in Workers |-> 0], b |-> [k \in Workers |-> 0]]

Init ==
  /\ wordlist \in SeqsUpTo(MaxWords)
  /\ chunkSize \in 1..(MaxWords + MaxForm)
  /\ target \in Targets
  /\ run = 1
  /\ firstParams = {}
  /\ call = NoCall
  /\ ret = NoReturn
  /\ ScanStart

\* --------------------------------------------------------------- actions
\* fault: the critical section is entered without exclusion
TryLock_NoExclusion(holder) == TRUE

\* sync.Mutex: Lock proceeds only when nobody holds the mutex
TryLock(holder) == holder = NoWorker

\* fault: the mutex is not released
Unlock_Missing(holder) == holder

\* sync.Mutex: Unlock by the holder leaves the mutex free
Unlock(holder) == NoWorker

\* fault: Wait returns without waiting
WaitGroupDone_NoWait(pcs, n) == TRUE

\* sync.WaitGroup: Wait returns when each of the n started workers called Done
WaitGroupDone(pcs, n) == \A i \in 1..n : i \in Workers => pcs[i] = "done"

\* fault: the early return is missing
ShouldAbort_Never(ir) == FALSE

\* DiscoverParams: if !initialResponses.AreConsistent { return aborted }
ShouldAbort(ir) == ~ir.AreConsistent

\* fault: a pair is accepted without being split
IsBaseCase_Pair(ps) == Len(ps) <= 2

\* recursiveFilter: if len(params) == 1 { return params }
IsBaseCase(ps) == Len(ps) = 1

\* recursiveFilter: mid := len(params) / 2; left := params[:mid]; right := params[mid:]
LeftHalf(ps)  == SubSeq(ps, 1, Len(ps) \div 2)

\* fault: right := params[0:], the whole list again
RightHalf_Whole(ps) == ps

RightHalf(ps) == SubSeq(ps, (Len(ps) \div 2) + 1, Len(ps))

\* fault: "else if" - the right half is examined only when the left one
\* did not change
Descend_ElseIf(ps, leftChanged, rightChanged) ==
  IF leftChanged THEN <<LeftHalf(ps)>>
  ELSE IF rightChanged THEN <<RightHalf(ps)>>
  ELSE <<>>

\* fault: both halves are descended into, whatever their responses were
Descend_Always(ps, leftChanged, rightChanged) == <<LeftHalf(ps), RightHalf(ps)>>

\* the sub-calls recursiveFilter makes after its two probes, left first
Descend(ps, leftChanged, rightChanged) ==
  (IF leftChanged THEN <<LeftHalf(ps)>> ELSE <<>>) \o
  (IF rightChanged THEN <<RightHalf(ps)>> ELSE <<>>)

\* history: a probe whose injection is the single name x was classified changed
Isolates(inj, changed) == IF changed /\ Cardinality(inj) = 1 THEN inj ELSE {}

\* makeInitialRequests lines 357-361: the value built from the responses
InitialResponses(rs) ==
  [Responses |-> rs,
   SameBody |-> baselineResponsesAreConsistent(rs, "responsesAreEqual"),
   AreConsistent |-> baselineResponsesAreConsistent(rs, "responsesAreSimilar")]

\* makeInitialRequests: one pass of the loop; after the last one the
\* InitialResponses value is built.  No other goroutine exists yet, so
\* totalRequests++ cannot be interleaved here.
BaselineProbe ==
  /\ pc = "baseline"
  /\ Len(baselineResponses) < numBaselines
  /\ \E resp \in makeRequest(target, {}, failures) :
       LET rs == Append(baselineResponses, resp) IN
       /\ failures' = CountFailure(target, failures, resp)
       /\ baselineResponses' = rs
       /\ IF Len(rs) = numBaselines
          THEN /\ initialResponses' = InitialResponses(rs)
               /\ pc' = "discover"
          ELSE /\ UNCHANGED initialResponses
               /\ pc' = "baseline"
  /\ totalRequests' = totalRequests + 1
  /\ probes' = probes + 1
  /\ UNCHANGED <<inputVars, callVars, runVars, traceVars, formsParams, params, parts, results, filterVars, bisectVars,
                 isolated, chunkFailed>>

\* DiscoverParams, lines 284-292
Abort ==
  /\ pc = "discover"
  /\ ShouldAbort(initialResponses)
  /\ results' = [Params |-> <<>>, FormParams |-> <<>>, Aborted |-> TRUE,
                 AbortReason |-> "Baseline responses differ significantly",
                 ParamsNil |-> FALSE, FormParamsNil |-> FALSE]
  /\ pc' = "done"
  /\ UNCHANGED <<inputVars, callVars, runVars, traceVars, baselineResponses, initialResponses, formsParams, params, parts,
                 filterVars, bisectVars, totalRequests, histVars>>

\* fault: the extracted names replace the wordlist
WithFormParams_Only(ps, fp) == fp

\* DiscoverParams line 297: params = append(params, formsParams...)
WithFormParams(ps, fp) == ps \o fp

\* DiscoverParams lines 294-298, discoverValidParams line 461 and the
\* spawning loop of filterParts
StartFilter ==
  /\ pc = "discover"
  /\ ~ShouldAbort(initialResponses)
  /\ LET fp == extractFormParams(initialResponses.Responses[1].Body)
         ps == WithFormParams(wordlist, fp)
         cs == chunkParams(ps, chunkSize)
     IN  /\ formsParams' = fp
         /\ params' = ps
         /\ parts' = cs
         /\ fpc' = [i \in Workers |-> IF i <= Len(cs) THEN "load" ELSE "idle"]
  /\ pc' = "filter"
  /\ UNCHANGED <<inputVars, callVars, runVars, traceVars, baselineResponses, initialResponses, results, freg, fmu,
                 validParts, bisectVars, totalRequests, histVars>>

\* makeRequest line 367, first half of totalRequests++: read the counter
FilterLoad(i) ==
  /\ fpc[i] = "load"
  /\ freg' = [freg EXCEPT ![i] = totalRequests]
  /\ fpc' = [fpc EXCEPT ![i] = "store"]
  /\ UNCHANGED <<inputVars, callVars, runVars, traceVars, mainVars, fmu, validParts, bisectVars, totalRequests, histVars>>

\* second half of totalRequests++: write the counter; the request goes out
FilterStore(i) ==
  /\ fpc[i] = "store"
  /\ totalRequests' = freg[i] + 1
  /\ freg' = [freg EXCEPT ![i] = 0]
  /\ fpc' = [fpc EXCEPT ![i] = "flight"]
  /\ probes' = probes + 1
  /\ filterProbes' = [filterProbes EXCEPT ![i] = @ + 1]
  /\ inFlight' = [inFlight EXCEPT !.f[i] = @ + 1]
  /\ UNCHANGED <<inputVars, callVars, runVars, modesUsed, chunkUnchanged, sent, splits, mainVars, fmu, validParts, bisectVars, isolated, chunkFailed,
                 failures>>

\* fault: the part is appended whatever its response was
AfterFilterProbe_KeepAll(changed) == "lock"

\* filterParts lines 513-517: only a part whose response changed goes on to
\* mu.Lock() and the append; the worker of any other part is finished
AfterFilterProbe(changed) == IF changed THEN "lock" ELSE "done"

\* the probe returns; filterParts line 513
FilterRecv(i) ==
  /\ fpc[i] = "flight"
  /\ \E resp \in makeRequest(target, generateParams(parts[i]), failures) :
       LET changed == responseChanged(initialResponses.Responses, resp,
                                      initialResponses.SameBody)
       IN  /\ fpc' = [fpc EXCEPT ![i] = AfterFilterProbe(changed)]
           /\ isolated' = isolated \cup Isolates(generateParams(parts[i]), changed)
           /\ chunkFailed' = IF resp = ZeroResponse THEN chunkFailed \cup {i} ELSE chunkFailed
           /\ failures' = CountFailure(target, failures, resp)
           /\ chunkUnchanged' = IF changed THEN chunkUnchanged ELSE chunkUnchanged \cup {i}
  /\ modesUsed' = modesUsed \cup {<<"filterParts", initialResponses.SameBody>>}
  /\ inFlight' = [inFlight EXCEPT !.f[i] = @ - 1]
  /\ UNCHANGED <<inputVars, callVars, runVars, filterProbes, sent, splits, mainVars, freg, fmu,
                 validParts, bisectVars, totalRequests, probes>>

\* filterParts line 514
FilterLock(i) ==
  /\ fpc[i] = "lock"
  /\ TryLock(fmu)
  /\ fmu' = i
  /\ fpc' = [fpc EXCEPT ![i] = "append"]
  /\ UNCHANGED <<inputVars, callVars, runVars, traceVars, mainVars, freg, validParts, bisectVars, totalRequests, histVars>>

\* fault: the append loses what other workers appended
FilterAppend_Overwrite(i) ==
  /\ fpc[i] = "append"
  /\ validParts' = <<i>>
  /\ fmu' = Unlock(fmu)
  /\ fpc' = [fpc EXCEPT ![i] = "done"]
  /\ UNCHANGED <<inputVars, callVars, runVars, traceVars, mainVars, freg, bisectVars, totalRequests, histVars>>

\* filterParts lines 515-516; the slice parts[i] is recorded by its index
FilterAppend(i) ==
  /\ fpc[i] = "append"
  /\ validParts' = Append(validParts, i)
  /\ fmu' = Unlock(fmu)
  /\ fpc' = [fpc EXCEPT ![i] = "done"]
  /\ UNCHANGED <<inputVars, callVars, runVars, traceVars, mainVars, freg, bisectVars, totalRequests, histVars>>

\* recursiveFilter up to its next probe: calls on a single name return it
\* (lines 571-573) and their results are appended in call order (lines
\* 586, 589); the first call on two or more names stays on top of the stack
RECURSIVE Unwind(_, _)
Unwind(st, fd) ==
  IF st = <<>> THEN [stack |-> st, found |-> fd]
  ELSE IF IsBaseCase(Head(st)) THEN Unwind(Tail(st), fd \o Head(st))
  ELSE [stack |-> st, found |-> fd]

\* where a bisection worker stands once its pending calls are unwound: at the
\* left probe of the next split, at the merge loop (line 473), or finished
AfterUnwind(u) ==
  IF u.stack # <<>> THEN "Lload"
  ELSE IF u.found # <<>> THEN "lock"
  ELSE "done"

\* filterParts line 520-521 and the spawning loop of discoverValidParams;
\* each worker starts recursiveFilter on its part
StartBisect ==
  /\ pc = "filter"
  /\ WaitGroupDone(fpc, Len(parts))
  /\ LET u == [k \in Workers |->
                 IF k <= Len(validParts) THEN Unwind(<<parts[validParts[k]]>>, <<>>)
                 ELSE [stack |-> <<>>, found |-> <<>>]]
     IN  /\ bpc' = [k \in Workers |-> IF k <= Len(validParts) THEN AfterUnwind(u[k]) ELSE "idle"]
         /\ stack' = [k \in Workers |-> u[k].stack]
         /\ found' = [k \in Workers |-> u[k].found]
  /\ pc' = "bisect"
  /\ UNCHANGED <<inputVars, callVars, runVars, traceVars, baselineResponses, initialResponses, formsParams, params, parts,
                 results, filterVars, breg, leftResponse, idx, seen, mu, paramSet,
                 validParams, totalRequests, histVars>>

\* totalRequests++ of the left (line 581) or right (line 582) probe: read
BisectLoad(k) ==
  /\ bpc[k] \in {"Lload", "Rload"}
  /\ breg' = [breg EXCEPT ![k] = totalRequests]
  /\ bpc' = [bpc EXCEPT ![k] = IF @ = "Lload" THEN "Lstore" ELSE "Rstore"]
  /\ UNCHANGED <<inputVars, callVars, runVars, traceVars, mainVars, filterVars, stack, leftResponse, found, idx, seen, mu,
                 paramSet, validParams, totalRequests, histVars>>

\* totalRequests++ of the left or right probe: write; the request goes out
BisectStore(k) ==
  /\ bpc[k] \in {"Lstore", "Rstore"}
  /\ totalRequests' = breg[k] + 1
  /\ breg' = [breg EXCEPT ![k] = 0]
  /\ bpc' = [bpc EXCEPT ![k] = IF @ = "Lstore" THEN "Lflight" ELSE "Rflight"]
  /\ probes' = probes + 1
  /\ sent' = [sent EXCEPT ![k] = Append(@, IF bpc[k] = "Lstore" THEN LeftHalf(Head(stack[k]))
                                           ELSE RightHalf(Head(stack[k])))]
  /\ inFlight' = [inFlight EXCEPT !.b[k] = @ + 1]
  /\ UNCHANGED <<inputVars, callVars, runVars, modesUsed, filterProbes, chunkUnchanged, splits, mainVars, filterVars, stack, leftResponse, found, idx, seen, mu,
                 paramSet, validParams, isolated, chunkFailed, failures>>

\* the left probe returns (line 581)
LeftRecv(k) ==
  /\ bpc[k] = "Lflight"
  /\ \E resp \in makeRequest(target, generateParams(LeftHalf(Head(stack[k]))), failures) :
       /\ leftResponse' = [leftResponse EXCEPT ![k] = resp]
       /\ failures' = CountFailure(target, failures, resp)
  /\ bpc' = [bpc EXCEPT ![k] = "Rload"]
  /\ inFlight' = [inFlight EXCEPT !.b[k] = @ - 1]
  /\ UNCHANGED <<inputVars, callVars, runVars, modesUsed, filterProbes, chunkUnchanged, sent, splits, mainVars, filterVars, breg, stack, found, idx, seen, mu, paramSet,
                 validParams, totalRequests, probes, isolated, chunkFailed>>

\* the right probe returns (line 582); both halves are classified and the
\* changed ones are descended into (lines 584-591)
RightRecv(k) ==
  /\ bpc[k] = "Rflight"
  /\ \E resp \in makeRequest(target, generateParams(RightHalf(Head(stack[k]))), failures) :
       LET ps == Head(stack[k])
           lc == responseChanged(initialResponses.Responses, leftResponse[k],
                                 initialResponses.SameBody)
           rc == responseChanged(initialResponses.Responses, resp,
                                 initialResponses.SameBody)
           u  == Unwind(Descend(ps, lc, rc) \o Tail(stack[k]), found[k])
       IN  /\ stack' = [stack EXCEPT ![k] = u.stack]
           /\ found' = [found EXCEPT ![k] = u.found]
           /\ bpc' = [bpc EXCEPT ![k] = AfterUnwind(u)]
           /\ isolated' = isolated \cup Isolates(generateParams(LeftHalf(ps)), lc)
                                   \cup Isolates(generateParams(RightHalf(ps)), rc)
           /\ failures' = CountFailure(target, failures, resp)
           /\ splits' = [splits EXCEPT ![k] =
                           Append(@, [params |-> ps, leftChanged |-> lc, rightChanged |-> rc])]
  /\ modesUsed' = modesUsed \cup {<<"recursiveFilter", initialResponses.SameBody>>}
  /\ inFlight' = [inFlight EXCEPT !.b[k] = @ - 1]
  /\ leftResponse' = [leftResponse EXCEPT ![k] = ZeroResponse]
  /\ UNCHANGED <<inputVars, callVars, runVars, filterProbes, chunkUnchanged, sent, mainVars, filterVars, breg, idx, seen, mu, paramSet,
                 validParams, totalRequests, probes, chunkFailed>>

\* discoverValidParams lines 474-475: mu.Lock(), then paramSet[param] is read
MergeLock(k) ==
  /\ bpc[k] = "lock"
  /\ TryLock(mu)
  /\ mu' = k
  /\ seen' = [seen EXCEPT ![k] = found[k][idx[k]] \in paramSet]
  /\ bpc' = [bpc EXCEPT ![k] = "insert"]
  /\ UNCHANGED <<inputVars, callVars, runVars, traceVars, mainVars, filterVars, breg, stack, leftResponse, found, idx,
                 paramSet, validParams, totalRequests, histVars>>

\* discoverValidParams lines 476-480: insert when not seen, mu.Unlock(), next name
MergeInsert(k) ==
  /\ bpc[k] = "insert"
  /\ IF seen[k]
     THEN UNCHANGED <<paramSet, validParams>>
     ELSE /\ paramSet' = paramSet \cup {found[k][idx[k]]}
          /\ validParams' = Append(validParams, found[k][idx[k]])
  /\ mu' = Unlock(mu)
  /\ seen' = [seen EXCEPT ![k] = FALSE]
  /\ idx' = [idx EXCEPT ![k] = @ + 1]
  /\ bpc' = [bpc EXCEPT ![k] = IF idx[k] + 1 > Len(found[k]) THEN "done" ELSE "lock"]
  /\ UNCHANGED <<inputVars, callVars, runVars, traceVars, mainVars, filterVars, breg, stack, leftResponse, found,
                 totalRequests, histVars>>

\* discoverValidParams lines 485-486 and DiscoverParams lines 299-302
Return ==
  /\ pc = "bisect"
  /\ WaitGroupDone(bpc, Len(validParts))
  /\ results' = [Params |-> validParams, FormParams |-> formsParams, Aborted |-> FALSE,
                 AbortReason |-> "",
                 ParamsNil |-> NilUnlessAppended(validParams),
                 FormParamsNil |-> NilUnlessAppended(formsParams)]
  /\ pc' = "done"
  /\ UNCHANGED <<inputVars, callVars, runVars, traceVars, baselineResponses, initialResponses, formsParams, params, parts,
                 filterVars, bisectVars, totalRequests, histVars>>

\* main (lines 247-271) started a second time on the same endpoint with the
\* same wordlist and chunk size: a fresh process, which remembers nothing;
\* firstParams keeps what the first scan returned, for comparison
StaticTargets == {"static", "down"}

Rerun ==
  /\ pc = "done"
  /\ run = 1
  /\ target \in StaticTargets
  /\ run' = 2
  /\ firstParams' = Range(results.Params)
  /\ pc' = "baseline"
  /\ baselineResponses' = <<>>
  /\ initialResponses' = NoInitialResponses
  /\ formsParams' = <<>>
  /\ params' = <<>>
  /\ parts' = <<>>
  /\ totalRequests' = 0
  /\ fpc' = [i \in Workers |-> "idle"]
  /\ freg' = [i \in Workers |-> 0]
  /\ fmu' = NoWorker
  /\ validParts' = <<>>
  /\ bpc' = [k \in Workers |-> "idle"]
  /\ breg' = [k \in Workers |-> 0]
  /\ stack' = [k \in Workers |-> <<>>]
  /\ leftResponse' = [k \in Workers |-> ZeroResponse]
  /\ found' = [k \in Workers |-> <<>>]
  /\ idx' = [k \in Workers |-> 1]
  /\ seen' = [k \in Workers |-> FALSE]
  /\ mu' = NoWorker
  /\ paramSet' = {}
  /\ validParams' = <<>>
  /\ results' = NoResults
  /\ probes' = 0
  /\ isolated' = {}
  /\ chunkFailed' = {}
  /\ failures' = 0
  /\ modesUsed' = {}
  /\ filterProbes' = [i \in Workers |-> 0]
  /\ chunkUnchanged' = {}
  /\ sent' = [k \in Workers |-> <<>>]
  /\ splits' = [k \in Workers |-> <<>>]
  /\ inFlight' = [f |-> [i \in Workers |-> 0], b |-> [k \in Workers |-> 0]]
  /\ UNCHANGED <<inputVars, callVars>>

\* The http.Client is built without a Timeout and the requests carry no
\* context, so client.Do may never return.  At most one probe of a scan
\* hangs, and only on the endpoints of HangTargets.
HangTargets == {"static", "flaky"}

NoneHung == (\A i \in Workers : fpc[i] # "hung") /\ (\A k \in Workers : bpc[k] # "hung")

\* the request of a filterParts worker never returns
FilterHang(i) ==
  /\ fpc[i] = "flight"
  /\ NoneHung
  /\ fpc' = [fpc EXCEPT ![i] = "hung"]
  /\ UNCHANGED <<inputVars, callVars, runVars, traceVars, mainVars, freg, fmu, validParts,
                 bisectVars, totalRequests, histVars>>

\* the left or right request of a recursiveFilter call never returns
BisectHang(k) ==
  /\ bpc[k] \in {"Lflight", "Rflight"}
  /\ NoneHung
  /\ bpc' = [bpc EXCEPT ![k] = "hung"]
  /\ UNCHANGED <<inputVars, callVars, runVars, traceVars, mainVars, filterVars, breg, stack,
                 leftResponse, found, idx, seen, mu, paramSet, validParams, totalRequests,
                 histVars>>

Next ==
  \/ BaselineProbe
  \/ Abort
  \/ StartFilter
  \/ \E i \in Workers : FilterLoad(i)
  \/ \E i \in Workers : FilterStore(i)
  \/ \E i \in Workers : FilterRecv(i)
  \/ \E i \in Workers : FilterLock(i)
  \/ \E i \in Workers : FilterAppend(i)
  \/ StartBisect
  \/ \E k \in Workers : BisectLoad(k)
  \/ \E k \in Workers : BisectStore(k)
  \/ \E k \in Workers : LeftRecv(k)
  \/ \E k \in Workers : RightRecv(k)
  \/ \E k \in Workers : MergeLock(k)
  \/ \E k \in Workers : MergeInsert(k)
  \/ Return

Spec == Init /\ [][Next]_vars

NextTwice == Next \/ Rerun

SpecTwice == Init /\ [][NextTwice]_vars

InitHang == Init /\ target \in HangTargets

\* Scans of the static endpoint with wordlists of up to MaxChunk names, the
\* form field included, taken as one chunk, or as chunks of one name while
\* there is a worker for each; and the unstable endpoint on an empty wordlist.
InitDeep ==
  /\ \/ /\ target = "static"
        /\ wordlist \in SeqsUpTo(MaxChunk - MaxForm)
        /\ chunkSize \in {c \in {1, Len(wordlist) + MaxForm} :
                             (Len(wordlist) + MaxForm + c - 1) \div c <= MaxWords + MaxForm}
     \/ /\ target = "unstable"
        /\ wordlist = <<>>
        /\ chunkSize = 1
  /\ run = 1
  /\ firstParams = {}
  /\ call = NoCall
  /\ ret = NoReturn
  /\ ScanStart

SpecDeep == InitDeep /\ [][Next]_vars

\* Scans in which every request is answered and every goroutine that can
\* take a step is eventually scheduled, on the endpoints whose scans
\* compare in exact mode.
FairTargets == {"static", "flaky", "down", "joint"}

InitFair == Init /\ target \in FairTargets

SpecFair == InitFair /\ [][Next]_vars /\ WF_vars(Next)

NextHang ==
  \/ Next
  \/ \E i \in Workers : FilterHang(i)
  \/ \E k \in Workers : BisectHang(k)

SpecHang == InitHang /\ [][NextHang]_vars

\* ------------------------------------------------- helpers on their own
\* The helper functions of the scan, each called once on arguments drawn
\* from small sets; ret keeps what the call returned.
ShortBody == Rep("n", Len(SecretBody))
Bodies == {<<>>, SecretBody, ShortBody, NormalBody, DynBody10, DynBody11, DynBody12}
Observations ==
  {ResponseData(b, st, r) : b \in Bodies, st \in {ZeroResponse.StatusCode, StatusOK},
                            r \in {0, 1}}
BaselineObservations ==
  {ResponseData(b, StatusOK, 0) : b \in {SecretBody, NormalBody, DynBody10, DynBody11}}
BaselineLists == UNION {[1..n -> BaselineObservations] : n \in 0..numBaselines}

ResponseChangedCalls ==
  {[fn |-> "responseChanged", baselineResponses |-> bs, new |-> n, equalCheck |-> e] :
     bs \in BaselineLists, n \in Observations, e \in BOOLEAN}
ResponsesAreEqualCalls ==
  {[fn |-> "responsesAreEqual", a |-> a, b |-> b] : a \in Observations, b \in Observations}
ResponsesAreSimilarCalls ==
  {[fn |-> "responsesAreSimilar", a |-> a, b |-> b] : a \in Observations, b \in Observations}
ComputeSimilarityCalls ==
  {[fn |-> "computeSimilarity", aBody |-> a, bBody |-> b] : a \in Bodies, b \in Bodies}
ChunkParamsCalls ==
  {[fn |-> "chunkParams", params |-> ps, chunkSize |-> c] :
     ps \in SeqsUpTo(MaxWords + MaxForm), c \in 1..(MaxWords + MaxForm + 1)}
\* the responses makeInitialRequests may have collected
CollectedObservations ==
  {ResponseData(b, st, 0) : b \in Bodies \ {NormalBody},
                           st \in {ZeroResponse.StatusCode, StatusOK}}
InitialResponsesCalls ==
  {[fn |-> "makeInitialRequests", baselineResponses |-> rs] :
     rs \in [1..numBaselines -> CollectedObservations]}
Calls ==
  ResponseChangedCalls \cup ResponsesAreEqualCalls \cup ResponsesAreSimilarCalls
  \cup ComputeSimilarityCalls \cup ChunkParamsCalls \cup InitialResponsesCalls

scanVars == <<inputVars, runVars, mainVars, filterVars, bisectVars, totalRequests, histVars,
              traceVars>>

InitCall ==
  /\ call \in Calls
  /\ ret = NoReturn
  /\ wordlist = <<>>
  /\ chunkSize = 1
  /\ target = "static"
  /\ run = 1
  /\ firstParams = {}
  /\ ScanStart

CallResponseChanged ==
  /\ call.fn = "responseChanged"
  /\ ~ret.returned
  /\ ret' = [returned |-> TRUE,
             value |-> responseChanged(call.baselineResponses, call.new, call.equalCheck)]
  /\ UNCHANGED <<call, scanVars>>

\* the comparison in both argument orders and of the first argument with itself
CallResponsesAreEqual ==
  /\ call.fn = "responsesAreEqual"
  /\ ~ret.returned
  /\ ret' = [returned |-> TRUE,
             value |-> responsesAreEqual(call.a, call.b),
             swapped |-> responsesAreEqual(call.b, call.a),
             self |-> responsesAreEqual(call.a, call.a)]
  /\ UNCHANGED <<call, scanVars>>

CallResponsesAreSimilar ==
  /\ call.fn = "responsesAreSimilar"
  /\ ~ret.returned
  /\ ret' = [returned |-> TRUE, value |-> responsesAreSimilar(call.a, call.b)]
  /\ UNCHANGED <<call, scanVars>>

CallComputeSimilarity ==
  /\ call.fn = "computeSimilarity"
  /\ ~ret.returned
  /\ ret' = [returned |-> TRUE, value |-> computeSimilarity(call.aBody, call.bBody)]
  /\ UNCHANGED <<call, scanVars>>

CallChunkParams ==
  /\ call.fn = "chunkParams"
  /\ ~ret.returned
  /\ ret' = [returned |-> TRUE, value |-> chunkParams(call.params, call.chunkSize)]
  /\ UNCHANGED <<call, scanVars>>

\* what makeInitialRequests returns once its requests are answered
CallInitialResponses ==
  /\ call.fn = "makeInitialRequests"
  /\ ~ret.returned
  /\ ret' = [returned |-> TRUE, value |-> InitialResponses(call.baselineResponses)]
  /\ UNCHANGED <<call, scanVars>>

NextCall ==
  \/ CallInitialResponses
  \/ CallResponseChanged
  \/ CallResponsesAreEqual
  \/ CallResponsesAreSimilar
  \/ CallComputeSimilarity
  \/ CallChunkParams

SpecCall == InitCall /\ [][NextCall]_vars

\* ---------------------------------------------------------------- claims
NoDuplicates(seq) == \A i, j \in 1..Len(seq) : seq[i] = seq[j] => i = j

\* two observations are not similar: status codes differ, or reflection
\* counts differ, or body lengths differ with similarity below 0.9
NotSimilar(a, b) ==
  \/ a.StatusCode # b.StatusCode
  \/ a.Reflections # b.Reflections
  \/ /\ Len(a.Body) # Len(b.Body)
     /\ LET sim == computeSimilarity(a.Body, b.Body)
        IN  sim.num * ThresholdDen < ThresholdNum * sim.den

BaselineTaken == Len(baselineResponses) = numBaselines

BaselineUnstable ==
  \E i, j \in 1..Len(baselineResponses) :
    i < j /\ NotSimilar(baselineResponses[i], baselineResponses[j])

\* C1: when some pair of baseline observations is not similar, DiscoverParams
\* returns Aborted = true with an empty Params and an empty FormParams,
\* whatever the wordlist and the chunk size.
C1_AbortOnUnstableBaseline ==
  (pc = "done" /\ BaselineUnstable) =>
    /\ results.Aborted
    /\ results.Params = <<>>
    /\ results.FormParams = <<>>

C1_Witness ==
  /\ pc = "done"
  /\ BaselineUnstable
  /\ results.Aborted
  /\ wordlist # <<>>
  /\ ~NotSimilar(baselineResponses[1], baselineResponses[2])

\* C2: with a baseline that is not loosely consistent, nothing is probed
\* after the numBaselines baseline probes: no chunk-filter worker and no
\* bisection worker is ever started and the scan issues exactly
\* numBaselines probes.
C2_NoProbeAfterAbort ==
  (BaselineTaken /\ BaselineUnstable) =>
    /\ probes = numBaselines
    /\ \A w \in Workers : fpc[w] = "idle" /\ bpc[w] = "idle"

C2_Witness ==
  /\ pc = "done"
  /\ BaselineUnstable
  /\ probes = numBaselines
  /\ Len(wordlist) = MaxWords

\* C3: every discovered name was injected alone in a probe that was
\* classified changed against the baseline; a changed chunk or half of
\* several names never puts a name into the discovered set by itself.
C3_OnlyIsolatedNames ==
  /\ Range(validParams) \subseteq isolated
  /\ paramSet \subseteq isolated
  /\ Range(results.Params) \subseteq isolated

\* a name that came out of a surviving chunk of several distinct names
C3_Witness ==
  /\ pc = "done"
  /\ \E k \in 1..Len(validParts) :
       /\ Cardinality(Range(parts[validParts[k]])) >= 2
       /\ Range(parts[validParts[k]]) \cap Range(results.Params) # {}
       /\ ~(Range(parts[validParts[k]]) \subseteq Range(results.Params))

\* C4: on the static target, which never errors and changes exactly when a
\* hidden parameter is injected, the returned Params are, as a set, the
\* hidden parameters among the wordlist and the extracted form fields:
\* every influential candidate is found, no decoy and no form field such
\* as "test" is reported.
C4_StaticTargetExact ==
  (pc = "done" /\ target = "static") =>
    /\ Range(results.Params) = hiddenParams \cap (Range(wordlist) \cup Range(results.FormParams))
    /\ results.FormParams = <<"test">>
    /\ "test" \notin Range(results.Params)

\* two hidden parameters and a decoy, bisected out of chunks of two
C4_Witness ==
  /\ pc = "done"
  /\ target = "static"
  /\ chunkSize = 2
  /\ Range(results.Params) = hiddenParams
  /\ Len(params) = 3

\* C5 (as claimed): on the dynamic target, whose parameter-independent
\* bodies are pairwise similar, a scan that is not aborted never reports a
\* parameter that does not influence the response.
C5_NoFalsePositiveOnNoise ==
  (pc = "done" /\ target = "dynamic" /\ ~results.Aborted) =>
    Range(results.Params) \subseteq hiddenParams

\* C6 (as claimed): a chunk whose probe failed does not survive the chunk
\* filter.
C6_FailedChunkDoesNotSurvive ==
  \A i \in chunkFailed : i \notin Range(validParts)

\* C7 (as claimed): no increment of the request counter is lost; when the
\* scan returns the counter equals the number of probes issued.
C7_CounterCountsProbes ==
  pc = "done" => totalRequests = probes

\* C8: the discovered-parameter list never holds a name twice, also when
\* two workers isolate the same name.
C8_NoDuplicateParams ==
  /\ NoDuplicates(validParams)
  /\ NoDuplicates(results.Params)

\* two different workers returned the same name
C8_Witness ==
  /\ pc = "done"
  /\ \E k1, k2 \in 1..Len(validParts) :
       k1 # k2 /\ Range(found[k1]) \cap Range(found[k2]) # {}

\* C9: a second scan of the same static target with the same wordlist and
\* chunk size returns the same set of names as the first, whatever the
\* interleaving of the workers in either scan.
C9_SameSetOnRerun ==
  (pc = "done" /\ run = 2) => Range(results.Params) = firstParams

\* both scans found two names through two concurrently bisected chunks
C9_Witness ==
  /\ pc = "done"
  /\ run = 2
  /\ Cardinality(firstParams) = 2
  /\ Len(validParts) >= 2

\* C10: DiscoverParams returns only when every bisection worker has
\* terminated; the returned list holds every name a worker emitted, and
\* after the return no probe is issued and the discovered set is not
\* touched.
C10_Returned ==
  (pc = "done" /\ ~results.Aborted) =>
    /\ \A k \in Workers : bpc[k] \in {"idle", "done"}
    /\ \A k \in Workers : Range(found[k]) \subseteq Range(results.Params)
    /\ results.Params = validParams

C10_FinalizedAfterWorkers ==
  /\ []C10_Returned
  /\ [][pc = "done" => (pc' = "done" /\ UNCHANGED <<probes, validParams, paramSet, results>>)]_vars

\* two workers each emitted a name before the return
C10_Witness ==
  /\ pc = "done"
  /\ Len(validParts) >= 2
  /\ \A k \in 1..Len(validParts) : bpc[k] = "done" /\ found[k] # <<>>
  /\ Len(results.Params) >= 2

\* the comparison responseChanged selects with equalCheck
Selected(equalCheck) == IF equalCheck THEN "responsesAreEqual" ELSE "responsesAreSimilar"

\* C11: responseChanged reports "changed" exactly when the new response
\* fails the selected comparison (equal in exact mode, similar in
\* similarity mode) against every baseline; one matching baseline is
\* enough for "not changed".
C11_ChangedIffNoBaselineMatches ==
  (call.fn = "responseChanged" /\ ret.returned) =>
    (ret.value <=>
       \A k \in 1..Len(call.baselineResponses) :
         ~Compare(Selected(call.equalCheck), call.baselineResponses[k], call.new))

\* a call where the new response matches one baseline and not another,
\* and was reported unchanged
C11_Witness ==
  /\ call.fn = "responseChanged"
  /\ ret.returned
  /\ ~ret.value
  /\ \E k, j \in 1..Len(call.baselineResponses) :
       /\ Compare(Selected(call.equalCheck), call.baselineResponses[k], call.new)
       /\ ~Compare(Selected(call.equalCheck), call.baselineResponses[j], call.new)

\* C12: a scan that completed without aborting and discovered nothing
\* returns Params as a present, empty list, and FormParams too when no form
\* field was extracted; neither is a nil (null) value.
C12_EmptyListsNotNull ==
  (pc = "done" /\ ~results.Aborted) =>
    /\ (results.Params = <<>> => ~results.ParamsNil)
    /\ (results.FormParams = <<>> => ~results.FormParamsNil)

\* C13: responsesAreEqual is reflexive and symmetric, and it holds exactly
\* when the status codes, the reflection counts and the body lengths of
\* the two observations match.
C13_EqualIsLengthStatusReflections ==
  (call.fn = "responsesAreEqual" /\ ret.returned) =>
    /\ ret.self
    /\ ret.value = ret.swapped
    /\ ret.value <=> (/\ call.a.StatusCode = call.b.StatusCode
                       /\ call.a.Reflections = call.b.Reflections
                       /\ Len(call.a.Body) = Len(call.b.Body))

\* two observations with different bodies of one length were found equal
C13_Witness ==
  /\ call.fn = "responsesAreEqual"
  /\ ret.returned
  /\ ret.value
  /\ call.a.Body # call.b.Body

LongerLen(aBody, bBody) == IF Len(bBody) > Len(aBody) THEN Len(bBody) ELSE Len(aBody)

\* the edit distance of the two bodies is within a tenth of the longer one
WithinThreshold(aBody, bBody) ==
  (LongerLen(aBody, bBody) - DiffLevenshtein(aBody, bBody)) * ThresholdDen
    >= ThresholdNum * LongerLen(aBody, bBody)

\* C16: in similarity mode two observations with matching status and
\* reflections and bodies of equal length are similar whatever the bodies
\* contain; the score 1 - editDistance/max(len) decides against 0.9 only
\* when the lengths differ; two empty bodies score 1.0.
C16_SimilarityOnlyWhenLengthsDiffer ==
  /\ (call.fn = "responsesAreSimilar" /\ ret.returned) =>
       LET meta == /\ call.a.StatusCode = call.b.StatusCode
                   /\ call.a.Reflections = call.b.Reflections
       IN  IF Len(call.a.Body) = Len(call.b.Body)
           THEN ret.value <=> meta
           ELSE ret.value <=> (meta /\ WithinThreshold(call.a.Body, call.b.Body))
  /\ (call.fn = "computeSimilarity" /\ ret.returned) =>
       IF call.aBody = <<>> /\ call.bBody = <<>>
       THEN ret.value.num = ret.value.den
       ELSE ret.value.num * LongerLen(call.aBody, call.bBody) =
              (LongerLen(call.aBody, call.bBody) - DiffLevenshtein(call.aBody, call.bBody))
                * ret.value.den

\* two bodies of one length that share no symbol were found similar
C16_Witness ==
  /\ call.fn = "responsesAreSimilar"
  /\ ret.returned
  /\ ret.value
  /\ Len(call.a.Body) = Len(call.b.Body)
  /\ ~WithinThreshold(call.a.Body, call.b.Body)

RECURSIVE Flatten(_)
Flatten(seqs) == IF seqs = <<>> THEN <<>> ELSE Head(seqs) \o Flatten(Tail(seqs))

\* C20: for a vocabulary of length n and a chunk size c >= 1 chunkParams
\* returns ceil(n/c) chunks; each is a non-empty contiguous slice of at
\* most c names, all but the last of exactly c; in order they concatenate
\* to the vocabulary; an empty vocabulary gives no chunk.
C20_ChunksPartitionInOrder ==
  (call.fn = "chunkParams" /\ ret.returned) =>
    LET n == Len(call.params)
        c == call.chunkSize
        chunks == ret.value
    IN  /\ Len(chunks) = (n + c - 1) \div c
        /\ \A i \in 1..Len(chunks) :
             /\ chunks[i] = SubSeq(call.params, (i - 1) * c + 1, Min2(i * c, n))
             /\ Len(chunks[i]) >= 1
             /\ Len(chunks[i]) <= c
             /\ i < Len(chunks) => Len(chunks[i]) = c
        /\ Flatten(chunks) = call.params
        /\ n = 0 => chunks = <<>>

\* a vocabulary cut into full chunks followed by a shorter last one
C20_Witness ==
  /\ call.fn = "chunkParams"
  /\ ret.returned
  /\ Len(ret.value) >= 2
  /\ Len(ret.value[Len(ret.value)]) < call.chunkSize

\* all baseline observations have bodies of one length
BaselinesSameLength ==
  \A i, j \in 1..Len(baselineResponses) :
    Len(baselineResponses[i].Body) = Len(baselineResponses[j].Body)

\* C15: the comparison mode is fixed for the scan: every classification
\* of a non-aborted scan, by the chunk filter and by the bisection alike,
\* uses exact mode if all baseline bodies have the same length and
\* similarity mode otherwise.
C15_OneModeFromBaselineLengths ==
  \A m \in modesUsed : m[2] = BaselinesSameLength

\* a scan whose chunk filter and bisection both classified in similarity mode
C15_Witness ==
  /\ pc = "done"
  /\ ~results.Aborted
  /\ modesUsed = {<<"filterParts", FALSE>>, <<"recursiveFilter", FALSE>>}

\* requests of the recursiveFilter call in progress that are already sent
SentInCall(k) ==
  IF bpc[k] \in {"Lflight", "Rload", "Rstore"} THEN 1
  ELSE IF bpc[k] = "Rflight" THEN 2
  ELSE 0

\* the changed halves of the first j calls of worker k that satisfy long
\* (two or more names) or not (a single name)
RECURSIVE ChangedHalves(_, _, _)
ChangedHalves(k, j, long) ==
  IF j = 0 THEN 0
  ELSE ChangedHalves(k, j - 1, long)
       + (IF splits[k][j].leftChanged /\ ((Len(sent[k][2 * j - 1]) >= 2) <=> long)
          THEN 1 ELSE 0)
       + (IF splits[k][j].rightChanged /\ ((Len(sent[k][2 * j]) >= 2) <=> long)
          THEN 1 ELSE 0)

\* C17: a list of n >= 2 names is split at n/2 into two contiguous,
\* non-empty halves that cover it without overlap; one request is sent for
\* the left half, then one for the right half, before any recursion; each
\* half whose response changed is recursed into (both, if both changed) and
\* a half whose response did not change gets no further request.
C17_BisectionStep ==
  \A k \in Workers :
    /\ Len(sent[k]) = 2 * Len(splits[k]) + SentInCall(k)
    /\ \A j \in 1..Len(splits[k]) :
         LET ps == splits[k][j].params
             left == sent[k][2 * j - 1]
             right == sent[k][2 * j]
         IN  /\ Len(ps) >= 2
             /\ Len(left) = Len(ps) \div 2
             /\ Len(left) >= 1
             /\ Len(right) >= 1
             /\ left \o right = ps
             /\ j = 1 => ps = parts[validParts[k]]
             /\ j > 1 => \E i \in 1..(j - 1) :
                           \/ splits[k][i].leftChanged /\ ps = sent[k][2 * i - 1]
                           \/ splits[k][i].rightChanged /\ ps = sent[k][2 * i]
    /\ SentInCall(k) >= 1 =>
         sent[k][2 * Len(splits[k]) + 1] = SubSeq(Head(stack[k]), 1, Len(Head(stack[k])) \div 2)
    /\ (bpc[k] \in {"lock", "insert", "done"} /\ splits[k] # <<>>) =>
         /\ Len(splits[k]) = 1 + ChangedHalves(k, Len(splits[k]), TRUE)
         /\ Len(found[k]) = ChangedHalves(k, Len(splits[k]), FALSE)

\* a finished worker that recursed into both halves of one list and
\* dropped a half of another
C17_Witness ==
  \E k \in Workers :
    /\ bpc[k] = "done"
    /\ \E j \in 1..Len(splits[k]) : splits[k][j].leftChanged /\ splits[k][j].rightChanged
    /\ \E j \in 1..Len(splits[k]) : ~splits[k][j].leftChanged \/ ~splits[k][j].rightChanged
    /\ \E j \in 1..Len(splits[k]) : Len(splits[k][j].params) >= 3

\* C18: on a static target that changes only when two distinct names are
\* both in the request, neither name is ever discovered, whatever the
\* order of the vocabulary and the chunk size, also when the chunk that
\* holds both was classified changed and bisected.
C18_JointNamesNeverDiscovered ==
  target = "joint" =>
    /\ paramSet \cap jointParams = {}
    /\ Range(validParams) \cap jointParams = {}
    /\ Range(results.Params) \cap jointParams = {}
    /\ \A k \in Workers : Range(found[k]) \cap jointParams = {}

\* a finished scan in which the chunk holding both names survived the
\* filter and was bisected
C18_Witness ==
  /\ target = "joint"
  /\ pc = "done"
  /\ \E k \in 1..Len(validParts) :
       /\ jointParams \subseteq Range(parts[validParts[k]])
       /\ splits[k] # <<>>
       /\ bpc[k] = "done"

\* C19: a chunk whose filter response did not change is discarded: one
\* request was sent for it and no more, no bisection worker runs on it, and
\* a name of it is discovered only if another, surviving chunk holds the
\* same name.
C19_UnchangedChunkDiscarded ==
  \A i \in chunkUnchanged :
    /\ filterProbes[i] = 1
    /\ fpc[i] = "done"
    /\ \A k \in 1..Len(validParts) : validParts[k] # i
    /\ \A n \in Range(parts[i]) \cap (paramSet \cup Range(results.Params)) :
         \E k \in 1..Len(validParts) : n \in Range(parts[validParts[k]])

\* a finished scan with an unchanged chunk one of whose names was
\* discovered through another chunk
C19_Witness ==
  /\ pc = "done"
  /\ \E i \in chunkUnchanged : Range(parts[i]) \cap Range(results.Params) # {}

SomeHung == ~NoneHung

\* C14: a probe that never returns stalls only the worker that sent it:
\* the scan as a whole is not blocked, so until DiscoverParams has
\* returned there is always a step for the scan to take.
C14_HungProbeDoesNotBlockScan ==
  SomeHung => (pc = "done" \/ ENABLED NextHang)

\* C21: in a scan that is not aborted the form-field names extracted from
\* the body of the first baseline response are appended after the wordlist
\* before chunking, every chunk of that vocabulary gets its filter request,
\* and the returned FormParams is the extracted list, whichever of the
\* names are discovered.
C21_FormFieldsAppendedAndReported ==
  (pc \in {"filter", "bisect"} \/ (pc = "done" /\ ~results.Aborted)) =>
    LET extracted == extractFormParams(baselineResponses[1].Body)
    IN  /\ formsParams = extracted
        /\ params = wordlist \o extracted
        /\ Flatten(parts) = params
        /\ pc \in {"bisect", "done"} => \A i \in 1..Len(parts) : filterProbes[i] = 1
        /\ pc = "done" => results.FormParams = extracted

\* a finished scan of a non-empty wordlist that extracted a form field,
\* probed it in a chunk of its own and did not discover it
C21_Witness ==
  /\ pc = "done"
  /\ ~results.Aborted
  /\ wordlist # <<>>
  /\ results.FormParams # <<>>
  /\ results.Params # <<>>
  /\ Range(results.FormParams) \cap Range(results.Params) = {}
  /\ \E i \in 1..Len(parts) : parts[i] = results.FormParams /\ filterProbes[i] = 1

\* filterParts and discoverValidParams workers that were started and have
\* not called Done
RunningFilter == {i \in Workers : fpc[i] \notin {"idle", "done"}}
RunningBisect == {k \in Workers : bpc[k] \notin {"idle", "done"}}

\* C22: at every moment at most ceil(vocabulary size / chunkSize) workers
\* are running, the vocabulary being the wordlist with the form fields
\* appended, and no worker has more than one request in flight: the two
\* requests of a bisection step and the descents follow one another.
C22_BoundedWorkersOneProbeEach ==
  /\ Cardinality(RunningFilter) + Cardinality(RunningBisect)
       <= (Len(params) + chunkSize - 1) \div chunkSize
  /\ \A w \in Workers : inFlight.f[w] <= 1 /\ inFlight.b[w] <= 1

\* as many filter workers as there are chunks, at least two, each with its
\* request in flight
C22_Witness ==
  /\ Cardinality(RunningFilter) = (Len(params) + chunkSize - 1) \div chunkSize
  /\ Cardinality(RunningFilter) >= 2
  /\ \A i \in RunningFilter : inFlight.f[i] = 1

\* C23: no worker holds a lock while a request of its own is in flight:
\* the holder of the filter lock has had the answer to its chunk's request,
\* the holder of the aggregation lock has finished its whole bisection;
\* so with a request that never returns, a worker waiting to merge still
\* gets its turn.
C23_NoLockWhileProbing ==
  /\ \A w \in Workers :
       /\ fmu = w => (fpc[w] = "append" /\ inFlight.f[w] = 0 /\ filterProbes[w] = 1)
       /\ mu = w => /\ bpc[w] = "insert"
                     /\ inFlight.b[w] = 0
                     /\ stack[w] = <<>>
                     /\ Len(sent[w]) = 2 * Len(splits[w])
  /\ (\E i \in Workers : fpc[i] = "lock") =>
       ENABLED (\E i \in Workers : FilterLock(i) \/ FilterAppend(i))
  /\ (\E k \in Workers : bpc[k] = "lock") =>
       ENABLED (\E k \in Workers : MergeLock(k) \/ MergeInsert(k))

\* one filter request never returns while another worker holds the filter
\* lock and a third waits for it
C23_Witness ==
  \E h, w, i \in Workers :
    /\ fpc[h] = "hung"
    /\ fmu = w
    /\ fpc[w] = "append"
    /\ fpc[i] = "lock"

\* positions of a chunk that hold an influential name
Influential(chunk) == {j \in 1..Len(chunk) : chunk[j] \in hiddenParams}

RECURSIVE CeilLog2(_)
CeilLog2(n) == IF n <= 1 THEN 0 ELSE 1 + CeilLog2((n + 1) \div 2)

\* C24: on the static target the bisection worker of a surviving chunk of
\* n names with exactly one influential name sends two requests per
\* recursion level, each level on a half of the level before, and at most
\* 2*ceil(log2 n) requests in all; the worker of a surviving chunk of one
\* name sends none and returns the name as it is.
C24_BisectionCost ==
  target = "static" =>
    \A k \in 1..Len(validParts) :
      bpc[k] # "idle" =>
        LET chunk == parts[validParts[k]]
            n == Len(chunk)
        IN  /\ n = 1 => (sent[k] = <<>> /\ splits[k] = <<>> /\ found[k] = chunk)
            /\ Cardinality(Influential(chunk)) = 1 =>
                 /\ Len(sent[k]) = 2 * Len(splits[k]) + SentInCall(k)
                 /\ Len(sent[k]) <= 2 * CeilLog2(n)
                 /\ \A j \in 2..Len(splits[k]) :
                      splits[k][j].params \in {sent[k][2 * j - 3], sent[k][2 * j - 2]}

\* a finished worker whose chunk of four or more names held one
\* influential name and cost the full 2*ceil(log2 n) requests
C24_Witness ==
  /\ target = "static"
  /\ \E k \in 1..Len(validParts) :
       /\ bpc[k] = "done"
       /\ Len(parts[validParts[k]]) >= 4
       /\ Cardinality(Influential(parts[validParts[k]])) = 1
       /\ Len(sent[k]) = 2 * CeilLog2(Len(parts[validParts[k]]))

\* the order of the stages, as far as one state shows it
C25_Ordered ==
  /\ pc = "baseline" =>
       /\ initialResponses = NoInitialResponses
       /\ probes = Len(baselineResponses)
  /\ (\E i \in Workers : filterProbes[i] > 0) =>
       /\ Len(baselineResponses) = numBaselines
       /\ initialResponses.Responses = baselineResponses
       /\ pc # "baseline"
  /\ (\E k \in Workers : sent[k] # <<>>) =>
       \A i \in 1..Len(parts) : fpc[i] = "done" /\ inFlight.f[i] = 0

\* C25: the baseline requests are made one after another and are all
\* answered before the two flags are computed and before any filter
\* request is sent; every filter worker has finished before any bisection
\* request is sent; once computed, the baseline responses and the two
\* flags never change.
C25_StagesInOrder ==
  /\ []C25_Ordered
  /\ [][Len(baselineResponses) = numBaselines =>
          UNCHANGED <<baselineResponses, initialResponses>>]_vars

\* a bisection request in flight in a scan of two or more chunks
C25_Witness ==
  /\ Len(parts) >= 2
  /\ \E k \in Workers : inFlight.b[k] = 1

\* chunks and recursiveFilter calls are on non-empty lists, and the two
\* halves of a call are non-empty and shorter than its list
C26_SmallerNonEmpty ==
  /\ chunkSize >= 1
  /\ \A i \in 1..Len(parts) : parts[i] # <<>>
  /\ \A k \in Workers :
       /\ \A d \in 1..Len(stack[k]) : stack[k][d] # <<>>
       /\ \A j \in 1..Len(sent[k]) : sent[k][j] # <<>>
       /\ \A j \in 1..Len(splits[k]) :
            /\ Len(sent[k][2 * j - 1]) < Len(splits[k][j].params)
            /\ Len(sent[k][2 * j]) < Len(splits[k][j].params)

\* every worker that was started has called Done
C26_AllFinished ==
  /\ pc = "done"
  /\ \A w \in Workers : fpc[w] \in {"idle", "done"} /\ bpc[w] \in {"idle", "done"}

\* C26: when every request is answered, every scan with a chunk size of
\* one or more terminates: the recursion is always on a non-empty list
\* shorter than the one before, every worker finishes and DiscoverParams
\* returns.
C26_ScanTerminates ==
  /\ []C26_SmallerNonEmpty
  /\ <>C26_AllFinished

\* a returned scan one of whose workers went two recursion levels deep
C26_Witness ==
  /\ C26_AllFinished
  /\ ~results.Aborted
  /\ \E k \in Workers : Len(splits[k]) >= 2

\* C27: baseline responses that are pairwise equal are pairwise similar:
\* SameBody implies AreConsistent, so exact mode is never selected in an
\* aborted scan and an aborting set of baselines has SameBody false.
C27_ExactImpliesLoose ==
  (call.fn = "makeInitialRequests" /\ ret.returned) =>
    /\ ret.value.SameBody => ret.value.AreConsistent
    /\ ShouldAbort(ret.value) => ~ret.value.SameBody

\* baselines that are pairwise equal although two of their bodies share
\* no symbol
C27_Witness ==
  /\ call.fn = "makeInitialRequests"
  /\ ret.returned
  /\ ret.value.SameBody
  /\ \E i, j \in 1..numBaselines :
       ~WithinThreshold(call.baselineResponses[i].Body, call.baselineResponses[j].Body)

\* baseline requests that failed in transport (no endpoint of the model
\* answers with the zero value)
FailedBaselines == {i \in 1..Len(baselineResponses) : baselineResponses[i] = ZeroResponse}

\* C28: when all baseline requests fail the baseline is exactly and
\* loosely consistent, the scan is not aborted and classifies in exact
\* mode; only an unstable baseline sets Aborted, a transport failure never
\* does: in an aborted scan two answered baselines differ significantly.
C28_TransportFailureNeverAborts ==
  /\ (pc # "baseline" /\ Cardinality(FailedBaselines) = numBaselines) =>
       /\ initialResponses.SameBody
       /\ initialResponses.AreConsistent
       /\ ~results.Aborted
       /\ \A m \in modesUsed : m[2]
  /\ results.Aborted =>
       \E i, j \in (1..numBaselines) \ FailedBaselines :
         ~responsesAreSimilar(baselineResponses[i], baselineResponses[j])

====
